---- MODULE Spec2Model ----
(***************************************************************************)
(* Model of ve.ce.MWTransclusionNode                                       *)
(* (extensions/VisualEditor/modules/ve-mw/ce/nodes/                        *)
(*  ve.ce.MWTransclusionNode.js).                                          *)
(*                                                                         *)
(* Five specifications share the variables below:                          *)
(*   SpecFilter  static.filterRendering applied to bounded node lists      *)
(*   SpecDom     filterRenderedDomElements applied to bounded element lists*)
(*   SpecDesc    static.getDescription / static.getDescriptionDom          *)
(*   SpecCmd     executeCommand against bounded context item lists         *)
(*   Spec        overlapping generateContents cycles on one node           *)
(***************************************************************************)
EXTENDS Integers, Sequences, FiniteSets, TLC

VARIABLES
    contentNodes,   \* SpecFilter: argument of filterRendering
    rendering,      \* SpecFilter: outcome of filterRendering
    domElements,    \* SpecDom: argument of filterRenderedDomElements
    domResult,      \* SpecDom: outcome of filterRenderedDomElements
    partsList,      \* SpecDesc: model.getPartsList()
    description,    \* SpecDesc: outcome of getDescription
    descriptionDom, \* SpecDesc: outcome of getDescriptionDom
    contextItems,   \* SpecCmd: getContext().items
    calls,          \* SpecCmd: handlers invoked by executeCommand, in order
    xhrs,           \* Spec: requests issued by parseWikitextFragment
    deferreds,      \* Spec: the Deferred created by each generateContents
    handles,        \* Spec: the promise returned by each generateContents
    uncaught        \* Spec: requests whose done handler threw

vars == << contentNodes, rendering, domElements, domResult, partsList,
           description, descriptionDom, contextItems, calls,
           xhrs, deferreds, handles, uncaught >>

filterVars == << contentNodes, rendering >>
domVars    == << domElements, domResult >>
descVars   == << partsList, description, descriptionDom >>
cmdVars    == << contextItems, calls >>
genVars    == << xhrs, deferreds, handles, uncaught >>

(***************************************************************************)
(* Bounds                                                                  *)
(***************************************************************************)
MaxNodes == 3        \* length of the node list given to filterRendering
MaxElements == 2     \* length of the list given to filterRenderedDomElements
MaxParts == 3        \* length of the parts list
MaxItems == 2        \* number of context items
MaxCalls == 1        \* executeCommand invocations recorded
MaxInvocations == 2  \* overlapping generateContents cycles

(***************************************************************************)
(* Sequence helpers                                                        *)
(***************************************************************************)
SeqsUpTo(S, n) == UNION { [1..k -> S] : k \in 0..n }

RECURSIVE Concat(_)
Concat(ss) == IF Len(ss) = 0 THEN << >> ELSE Head(ss) \o Concat(Tail(ss))

(***************************************************************************)
(* DOM nodes as filterRendering sees them                                  *)
(***************************************************************************)
NoAttr == "<absent>"

\* data-mw attribute texts
AutoTrue  == "{\"autoGenerated\":true}"
AutoFalse == "{\"autoGenerated\":false}"
NullJson  == "null"
Malformed == "{\"autoGenerated\":"
DataMwTexts == { AutoTrue, AutoFalse, NullJson, Malformed }

\* ve.dm.Converter.static.whitespaceList
whitespaceList == { " ", "\t", "\f", "\r", "\n" }

TextNode(data) ==
    [ uid |-> << 0, 0 >>, nodeType |-> "TEXT_NODE", nodeName |-> "#text",
      data |-> data, dataMw |-> NoAttr, id |-> NoAttr, childNodes |-> << >> ]

Element(name, dataMw, id, children) ==
    [ uid |-> << 0, 0 >>, nodeType |-> "ELEMENT_NODE", nodeName |-> name,
      data |-> << >>, dataMw |-> dataMw, id |-> id, childNodes |-> children ]

ChildLists ==
    { << TextNode(<< "X" >>) >>,
      << TextNode(<< " " >>), Element("B", NoAttr, NoAttr, << >>) >> }

NodeShapes ==
    { TextNode(<< " " >>), TextNode(<< "\n", " " >>), TextNode(<< "X" >>),
      TextNode(<< " ", "X" >>) }
    \cup { Element("P", m, NoAttr, c) :
             m \in { NoAttr, AutoTrue, Malformed }, c \in ChildLists }
    \cup { Element("DIV", m, NoAttr, << >>) : m \in DataMwTexts }
    \cup { Element("DIV", NoAttr, i, << >>) : i \in { NoAttr, "mwAQ" } }

\* Every node of a parsed fragment is a distinct object: uid is its identity,
\* <<i, 0>> for the i-th top-level node and <<i, j>> for its j-th child.
WithUids(s) ==
    [ i \in DOMAIN s |->
        [ s[i] EXCEPT
            !.uid = << i, 0 >>,
            !.childNodes = [ j \in DOMAIN s[i].childNodes |->
                               [ s[i].childNodes[j] EXCEPT !.uid = << i, j >> ] ] ] ]

Uids(s) == [ i \in DOMAIN s |-> s[i].uid ]

(***************************************************************************)
(* static.filterRendering                                                  *)
(***************************************************************************)
\* JSON.parse of a data-mw text: ok = FALSE is a thrown SyntaxError; the value
\* keeps what the filter reads, its truthiness and that of .autoGenerated.
JSONparse(text) ==
    CASE text = AutoTrue  -> [ ok |-> TRUE,  truthy |-> TRUE,  autoGenerated |-> TRUE ]
      [] text = AutoFalse -> [ ok |-> TRUE,  truthy |-> TRUE,  autoGenerated |-> FALSE ]
      [] text = NullJson  -> [ ok |-> TRUE,  truthy |-> FALSE, autoGenerated |-> FALSE ]
      [] OTHER            -> [ ok |-> FALSE, truthy |-> FALSE, autoGenerated |-> FALSE ]

hasAttribute(node, attr) ==
    CASE attr = "data-mw" -> node.dataMw # NoAttr
      [] attr = "id"      -> node.id # NoAttr

\* var dataMw = node && node.nodeType === ELEMENT_NODE &&
\*              node.hasAttribute( 'data-mw' ) && JSON.parse( ... )
dataMwOf(node) ==
    IF node.nodeType = "ELEMENT_NODE" /\ hasAttribute(node, "data-mw")
    THEN JSONparse(node.dataMw)
    ELSE [ ok |-> TRUE, truthy |-> FALSE, autoGenerated |-> FALSE ]

\* return !dataMw || !dataMw.autoGenerated
keepNode(node) ==
    LET dataMw == dataMwOf(node)
    IN  ~dataMw.truthy \/ ~dataMw.autoGenerated

\* mw.libs.ve.stripParsoidFallbackIds: drops the parser's fallback ids
stripParsoidFallbackIds(node) ==
    [ node EXCEPT !.id = NoAttr,
                  !.childNodes = [ j \in DOMAIN node.childNodes |->
                                     [ node.childNodes[j] EXCEPT !.id = NoAttr ] ] ]

whitespaceRegexTest(data) ==
    Len(data) > 0 /\ \A i \in DOMAIN data : data[i] \in whitespaceList

\* isWhitespaceNode( contentNodes[ k ] ); an index outside the array is undefined
isWhitespaceNode(nodes, k) ==
    k \in DOMAIN nodes /\ nodes[k].nodeType = "TEXT_NODE"
                       /\ whitespaceRegexTest(nodes[k].data)

RECURSIVE shiftWhitespace(_)
shiftWhitespace(nodes) ==
    IF isWhitespaceNode(nodes, 1) THEN shiftWhitespace(Tail(nodes)) ELSE nodes

RECURSIVE popWhitespace(_)
popWhitespace(nodes) ==
    IF isWhitespaceNode(nodes, Len(nodes))
    THEN popWhitespace(SubSeq(nodes, 1, Len(nodes) - 1))
    ELSE nodes

toLowerCase(name) ==
    CASE name = "P" -> "p"
      [] name = "DIV" -> "div"
      [] name = "B" -> "b"
      [] OTHER -> name

Returned(value) == [ state |-> "returned", value |-> value ]
Thrown == [ state |-> "thrown", value |-> << >> ]
NotCalled == [ state |-> "none", value |-> << >> ]

filterRendering(nodes) ==
    IF Len(nodes) = 0 THEN Returned(<< >>)
    ELSE IF \E i \in DOMAIN nodes : ~dataMwOf(nodes[i]).ok THEN Thrown
    ELSE
        LET filtered == SelectSeq(nodes, keepNode)
            stripped == [ i \in DOMAIN filtered |->
                            IF filtered[i].nodeType = "ELEMENT_NODE"
                            THEN stripParsoidFallbackIds(filtered[i])
                            ELSE filtered[i] ]
            trimmed == popWhitespace(shiftWhitespace(stripped))
        IN  IF Len(trimmed) = 1 /\ toLowerCase(trimmed[1].nodeName) = "p"
            THEN Returned(trimmed[1].childNodes)
            ELSE Returned(trimmed)

FilterInputs == { WithUids(s) : s \in SeqsUpTo(NodeShapes, MaxNodes) }

FilterRendering ==
    /\ rendering.state = "none"
    /\ rendering' = filterRendering(contentNodes)
    /\ UNCHANGED << contentNodes, domVars, descVars, cmdVars, genVars >>

(***************************************************************************)
(* filterRenderedDomElements                                               *)
(***************************************************************************)
\* Attribute values are kept as lists of segments, so that ^= (prefix) and
\* ~= (whitespace-separated word) are computed: an absent attribute is << >>.
TemplateStylesId == << "TemplateStyles:", "r1" >>
TemplateStylesHref == << "mw-data:TemplateStyles:", "r1" >>

DomElement(tag, dedup, rel, href, children) ==
    [ uid |-> << 0, 0 >>, tag |-> tag, dedup |-> dedup, rel |-> rel,
      href |-> href, childNodes |-> children ]

StyleShapes ==
    { DomElement("style", d, << >>, << >>, << >>) :
        d \in { << >>, TemplateStylesId, << "Other:", "r1" >> } }

LinkShapes ==
    { DomElement("link", << >>, r, h, << >>) :
        r \in { << >>, << "stylesheet" >>,
                << "nofollow", "mw-deduplicated-inline-style" >> },
        h \in { TemplateStylesHref, << "https:", "//example.org/x.css" >> } }

SpanShape == DomElement("span", << >>, << >>, << >>, << >>)

DomChildLists ==
    { << >>, << SpanShape >> }
    \cup { << s >> : s \in StyleShapes }
    \cup { << SpanShape, l >> : l \in LinkShapes }

DomShapes ==
    StyleShapes \cup LinkShapes
    \cup { DomElement("div", << >>, << >>, << >>, c) : c \in DomChildLists }

attrStartsWith(value, prefix) == Len(value) > 0 /\ value[1] = prefix

attrHasWord(value, word) == \E i \in DOMAIN value : value[i] = word

\* style:not([data-mw-deduplicate^="TemplateStyles:"]),
\* link:not([rel~="mw-deduplicated-inline-style"][href^="mw-data:TemplateStyles:"])
matchesSelector(e) ==
    \/ /\ e.tag = "style"
       /\ ~attrStartsWith(e.dedup, "TemplateStyles:")
    \/ /\ e.tag = "link"
       /\ ~( /\ attrHasWord(e.rel, "mw-deduplicated-inline-style")
             /\ attrStartsWith(e.href, "mw-data:TemplateStyles:") )

\* $( domElements ).find( selector ): the matching descendants
jqFindMatching(els) ==
    UNION { { els[i].childNodes[j].uid : j \in { k \in DOMAIN els[i].childNodes :
                                                   matchesSelector(els[i].childNodes[k]) } } :
            i \in DOMAIN els }

\* .addBack( selector ): plus the elements of the previous set that match
jqAddBack(els, found) ==
    found \cup { els[i].uid : i \in { k \in DOMAIN els : matchesSelector(els[k]) } }

\* .remove(): every matched element is detached from its parent; the elements
\* of the list itself have no parent inside the list to be detached from
jqRemove(els, matched) ==
    [ i \in DOMAIN els |->
        LET stays(c) == c.uid \notin matched
        IN  [ els[i] EXCEPT !.childNodes = SelectSeq(@, stays) ] ]

\* .end().end().toArray(): back to $( domElements ), the list handed in
filterRenderedDomElements(els) ==
    jqRemove(els, jqAddBack(els, jqFindMatching(els)))

DomInputs == { WithUids(s) : s \in SeqsUpTo(DomShapes, MaxElements) }

FilterRenderedDomElements ==
    /\ domResult.state = "none"
    /\ domResult' = Returned(filterRenderedDomElements(domElements))
    /\ UNCHANGED << domElements, filterVars, descVars, cmdVars, genVars >>

(***************************************************************************)
(* static.getDescription, static.getDescriptionDom                         *)
(***************************************************************************)
\* Strings are lists of characters; a namespace prefix counts as one.
Undefined == << "<undefined>" >>

Truthy(s) == s # Undefined /\ s # << >>

\* ve.msg( 'comma-separator' )
commaSeparator == << ",", " " >>

PageTexts == { << "Template:", "F", "o" >>, << "F", "o" >> }
TemplateTexts == { << >>, << "b", "a" >> }

PartShapes ==
    { [ templatePage |-> p, template |-> t ] :
        p \in { Undefined } \cup PageTexts,
        t \in { Undefined } \cup TemplateTexts }
    \cup { [ templatePage |-> << "User:", "x" >>, template |-> << "#", "i", "f" >> ] }

\* mw.Title.newFromText
newFromText(text) ==
    IF Len(text) > 0 /\ Head(text) = "Template:"
    THEN [ namespace |-> "template", prefix |-> << Head(text) >>, main |-> Tail(text) ]
    ELSE IF Len(text) > 0 /\ Head(text) = "User:"
    THEN [ namespace |-> "user", prefix |-> << Head(text) >>, main |-> Tail(text) ]
    ELSE [ namespace |-> "", prefix |-> << >>, main |-> text ]

\* mw.Title.prototype.getRelativeText
getRelativeText(title, namespace) ==
    IF title.namespace = namespace THEN title.main
    ELSE IF title.namespace = "" THEN << ":" >> \o title.main
    ELSE title.prefix \o title.main

\* mw.Title.prototype.getUrl
getUrl(title) == << "/wiki/" >> \o title.prefix \o title.main

RECURSIVE join(_, _)
join(strings, separator) ==
    IF Len(strings) = 0 THEN << >>
    ELSE IF Len(strings) = 1 THEN strings[1]
    ELSE strings[1] \o separator \o join(Tail(strings), separator)

partDescription(part) ==
    IF Truthy(part.templatePage)
    THEN getRelativeText(newFromText(part.templatePage), "template")
    ELSE IF Truthy(part.template) THEN part.template ELSE << >>

\* A faulty variant: .map().join() with the .filter() left out
getDescriptionUnfiltered(parts) ==
    join([ i \in DOMAIN parts |-> partDescription(parts[i]) ], commaSeparator)

getDescription(parts) ==
    join(SelectSeq([ i \in DOMAIN parts |-> partDescription(parts[i]) ], Truthy),
         commaSeparator)

NullNode == [ nodeName |-> "null", text |-> << >>, href |-> << >>, target |-> << >> ]

createTextNode(text) ==
    [ nodeName |-> "#text", text |-> text, href |-> << >>, target |-> << >> ]

partNode(part) ==
    IF Truthy(part.templatePage)
    THEN LET title == newFromText(part.templatePage)
         IN  [ nodeName |-> "a", text |-> getRelativeText(title, "template"),
               href |-> getUrl(title), target |-> << >> ]
    ELSE IF Truthy(part.template) THEN createTextNode(part.template) ELSE NullNode

\* nodes.forEach( function ( node, i ) { if ( i ) { separator } append node } )
RECURSIVE appendNodes(_, _)
appendNodes(nodes, i) ==
    IF Len(nodes) = 0 THEN << >>
    ELSE ( IF i # 0 THEN << createTextNode(commaSeparator) >> ELSE << >> )
         \o << Head(nodes) >> \o appendNodes(Tail(nodes), i + 1)

\* ve.targetLinksToNewWindow
targetLinksToNewWindow(children) ==
    [ k \in DOMAIN children |->
        IF children[k].nodeName = "a"
        THEN [ children[k] EXCEPT !.target = << "_blank" >> ]
        ELSE children[k] ]

isNode(n) == n # NullNode

\* A faulty variant: the separator is appended before every node, the first
\* included
getDescriptionDomLeadingSeparator(parts) ==
    LET nodes == SelectSeq([ i \in DOMAIN parts |-> partNode(parts[i]) ], isNode)
    IN  [ nodeName |-> "span",
          childNodes |-> targetLinksToNewWindow(appendNodes(nodes, 1)) ]

getDescriptionDom(parts) ==
    LET nodes == SelectSeq([ i \in DOMAIN parts |-> partNode(parts[i]) ], isNode)
    IN  [ nodeName |-> "span",
          childNodes |-> targetLinksToNewWindow(appendNodes(nodes, 0)) ]

textContent(element) ==
    Concat([ k \in DOMAIN element.childNodes |-> element.childNodes[k].text ])

GetDescription ==
    /\ description.state = "none"
    /\ description' = Returned(getDescription(partsList))
    /\ UNCHANGED << partsList, descriptionDom, filterVars, domVars, cmdVars, genVars >>

GetDescriptionDom ==
    /\ descriptionDom.state = "none"
    /\ descriptionDom' = Returned(getDescriptionDom(partsList))
    /\ UNCHANGED << partsList, description, filterVars, domVars, cmdVars, genVars >>

(***************************************************************************)
(* executeCommand                                                          *)
(***************************************************************************)
ContextItemClasses ==
    { "ve.ui.MWTransclusionContextItem", "ve.ui.MWDefinedTransclusionContextItem",
      "ve.ui.LinkContextItem" }

\* item instanceof ve.ui.MWTransclusionContextItem, subclasses included
instanceofMWTransclusionContextItem(item) ==
    item \in { "ve.ui.MWTransclusionContextItem",
               "ve.ui.MWDefinedTransclusionContextItem" }

\* The handlers one executeCommand invokes, in order.
executeCommand(items) ==
    IF Len(items) > 0 /\ instanceofMWTransclusionContextItem(items[1])
    THEN << [ handler |-> "onEditButtonClick", item |-> 1, source |-> "command" ] >>
    ELSE << [ handler |-> "ve.ce.FocusableNode.prototype.executeCommand",
              item |-> 0, source |-> "" ] >>

ExecuteCommand ==
    /\ Len(calls) < MaxCalls
    /\ calls' = Append(calls, [ items |-> contextItems,
                                invoked |-> executeCommand(contextItems) ])
    /\ UNCHANGED << contextItems, filterVars, domVars, descVars, genVars >>

\* The surface's context rebuilds its items as the selection changes.
ContextChange ==
    /\ \E items \in SeqsUpTo(ContextItemClasses, MaxItems) :
          /\ items # contextItems
          /\ contextItems' = items
    /\ UNCHANGED << calls, filterVars, domVars, descVars, genVars >>

(***************************************************************************)
(* generateContents, onParseSuccess, onParseError                          *)
(***************************************************************************)
HtmlEmpty == ""
HtmlParagraph == "<p>Hi</p>"
HtmlAutoGenerated == "<div data-mw='{\"autoGenerated\":true}'></div> <div id='mwAQ'></div>"
HtmlMalformed == "<div data-mw='{\"autoGenerated\":'></div>"
Contents == { HtmlEmpty, HtmlParagraph, HtmlAutoGenerated, HtmlMalformed }

\* $.parseHTML( response.visualeditor.content, ... ) || []
parseHTML(content) ==
    CASE content = HtmlParagraph ->
           WithUids(<< Element("P", NoAttr, NoAttr, << TextNode(<< "H", "i" >>) >>) >>)
      [] content = HtmlAutoGenerated ->
           WithUids(<< Element("DIV", AutoTrue, NoAttr, << >>), TextNode(<< " " >>),
                       Element("DIV", NoAttr, "mwAQ", << >>) >>)
      [] content = HtmlMalformed ->
           WithUids(<< Element("DIV", Malformed, NoAttr, << >>) >>)
      [] OTHER -> << >>

\* The responses a request can complete with: visualeditor.result is missing,
\* something other than 'success', or 'success' with a content.
Responses ==
    { [ result |-> r, content |-> HtmlEmpty ] : r \in { "<missing>", "error" } }
    \cup { [ result |-> "success", content |-> c ] : c \in Contents }

NoResponse == [ result |-> "<none>", content |-> HtmlEmpty ]

\* ve.getProp( response, 'visualeditor', 'result' )
getProp(response) == response.result

NoValue == << "<no value>" >>

\* ve.createDeferred(): by lists the requests whose handlers called resolve or
\* reject on it, in call order
createDeferred == [ state |-> "pending", value |-> NoValue, by |-> << >> ]

\* deferred.resolve( value ): a settled Deferred ignores the call
resolve(dfs, d, value, x) ==
    [ dfs EXCEPT ![d] =
        IF @.state = "pending"
        THEN [ state |-> "resolved", value |-> value, by |-> Append(@.by, x) ]
        ELSE [ @ EXCEPT !.by = Append(@, x) ] ]

\* deferred.reject(): no value
reject(dfs, d, x) ==
    [ dfs EXCEPT ![d] =
        IF @.state = "pending"
        THEN [ state |-> "rejected", value |-> NoValue, by |-> Append(@.by, x) ]
        ELSE [ @ EXCEPT !.by = Append(@, x) ] ]

\* A faulty variant: the error handler resolves with an empty rendering
onParseErrorResolves(dfs, d, x) == resolve(dfs, d, << >>, x)

onParseError(dfs, d, x) == reject(dfs, d, x)

\* filterRendering throws inside onParseSuccess: deferred.resolve is not reached
onParseSuccessThrows(response) ==
    /\ getProp(response) = "success"
    /\ filterRendering(parseHTML(response.content)).state = "thrown"

onParseSuccess(dfs, d, response, x) ==
    IF getProp(response) # "success" THEN onParseError(dfs, d, x)
    ELSE IF onParseSuccessThrows(response) THEN dfs
    ELSE resolve(dfs, d, filterRendering(parseHTML(response.content)).value, x)

\* A faulty variant: the handlers are bound to one Deferred kept for the node
parseWikitextFragmentSharedDeferred(d) ==
    [ state |-> "inflight", deferred |-> 1, response |-> NoResponse ]

\* parseWikitextFragment( ... ).done( onParseSuccess.bind( this, deferred ) )
\*                             .fail( onParseError.bind( this, deferred ) )
parseWikitextFragment(d) ==
    [ state |-> "inflight", deferred |-> d, response |-> NoResponse ]

\* deferred.promise( { abort: xhr.abort } )
promise(d, x) == [ deferred |-> d, abort |-> x, abortCalled |-> FALSE ]

GenerateContents ==
    /\ Len(handles) < MaxInvocations
    /\ LET d == Len(deferreds) + 1
           x == Len(xhrs) + 1
       IN  /\ deferreds' = Append(deferreds, createDeferred)
           /\ xhrs' = Append(xhrs, parseWikitextFragment(d))
           /\ handles' = Append(handles, promise(d, x))
    /\ UNCHANGED << uncaught, filterVars, domVars, descVars, cmdVars >>

\* The request completes with an HTTP response: its done handlers run.
Respond ==
    /\ \E x \in DOMAIN xhrs, response \in Responses :
          /\ xhrs[x].state = "inflight"
          /\ xhrs' = [ xhrs EXCEPT ![x].state = "done", ![x].response = response ]
          /\ deferreds' = onParseSuccess(deferreds, xhrs[x].deferred, response, x)
          /\ uncaught' = IF onParseSuccessThrows(response)
                         THEN uncaught \cup { x } ELSE uncaught
    /\ UNCHANGED << handles, filterVars, domVars, descVars, cmdVars >>

\* The request fails at the network level: its fail handlers run.
NetworkFailure ==
    /\ \E x \in DOMAIN xhrs :
          /\ xhrs[x].state = "inflight"
          /\ xhrs' = [ xhrs EXCEPT ![x].state = "failed" ]
          /\ deferreds' = onParseError(deferreds, xhrs[x].deferred, x)
    /\ UNCHANGED << handles, uncaught, filterVars, domVars, descVars, cmdVars >>

\* The host calls abort() on the promise generateContents returned: the request
\* it names is aborted if still in flight, and its fail handlers run.
Abort ==
    /\ \E i \in DOMAIN handles :
          /\ ~handles[i].abortCalled
          /\ handles' = [ handles EXCEPT ![i].abortCalled = TRUE ]
          /\ LET x == handles[i].abort
             IN  IF xhrs[x].state = "inflight"
                 THEN /\ xhrs' = [ xhrs EXCEPT ![x].state = "aborted" ]
                      /\ deferreds' = onParseError(deferreds, xhrs[x].deferred, x)
                 ELSE UNCHANGED << xhrs, deferreds >>
    /\ UNCHANGED << uncaught, filterVars, domVars, descVars, cmdVars >>

(***************************************************************************)
(* Specifications                                                          *)
(***************************************************************************)
FilterIdle == contentNodes = << >> /\ rendering = NotCalled
DomIdle    == domElements = << >> /\ domResult = NotCalled
DescIdle   == partsList = << >> /\ description = NotCalled /\ descriptionDom = NotCalled
CmdIdle    == contextItems = << >> /\ calls = << >>
GenIdle    == xhrs = << >> /\ deferreds = << >> /\ handles = << >> /\ uncaught = { }

InitFilter ==
    /\ contentNodes \in FilterInputs
    /\ rendering = NotCalled
    /\ DomIdle /\ DescIdle /\ CmdIdle /\ GenIdle

NextFilter == FilterRendering

SpecFilter == InitFilter /\ [][NextFilter]_vars

InitDom ==
    /\ domElements \in DomInputs
    /\ domResult = NotCalled
    /\ FilterIdle /\ DescIdle /\ CmdIdle /\ GenIdle

NextDom == FilterRenderedDomElements

SpecDom == InitDom /\ [][NextDom]_vars

InitDesc ==
    /\ partsList \in SeqsUpTo(PartShapes, MaxParts)
    /\ description = NotCalled
    /\ descriptionDom = NotCalled
    /\ FilterIdle /\ DomIdle /\ CmdIdle /\ GenIdle

NextDesc == GetDescription \/ GetDescriptionDom

SpecDesc == InitDesc /\ [][NextDesc]_vars

InitCmd ==
    /\ contextItems \in SeqsUpTo(ContextItemClasses, MaxItems)
    /\ calls = << >>
    /\ FilterIdle /\ DomIdle /\ DescIdle /\ GenIdle

NextCmd == ExecuteCommand \/ ContextChange

SpecCmd == InitCmd /\ [][NextCmd]_vars

Init == FilterIdle /\ DomIdle /\ DescIdle /\ CmdIdle /\ GenIdle

Next == GenerateContents \/ Respond \/ NetworkFailure \/ Abort

Spec == Init /\ [][Next]_vars

(***************************************************************************)
(* Properties of filterRendering (SpecFilter)                              *)
(***************************************************************************)
\* What the properties say of a node list, written from the node data alone.
ParsableJson == { AutoTrue, AutoFalse, NullJson }

FlaggedAutoGenerated(n) == n.nodeType = "ELEMENT_NODE" /\ n.dataMw = AutoTrue

MetadataMissingOrUnparsable(n) ==
    n.nodeType = "ELEMENT_NODE" /\ n.dataMw \notin ParsableJson

NotFlagged(n) == ~FlaggedAutoGenerated(n)

WhitespaceOnlyText(n) ==
    /\ n.nodeType = "TEXT_NODE"
    /\ n.data # << >>
    /\ { n.data[i] : i \in DOMAIN n.data } \subseteq whitespaceList

SetMin(S) == CHOOSE m \in S : \A o \in S : m <= o
SetMax(S) == CHOOSE m \in S : \A o \in S : m >= o

EdgeTrimmed(nodes) ==
    LET solid == { i \in DOMAIN nodes : ~WhitespaceOnlyText(nodes[i]) }
    IN  IF solid = { } THEN << >> ELSE SubSeq(nodes, SetMin(solid), SetMax(solid))

Remaining(nodes) == EdgeTrimmed(SelectSeq(nodes, NotFlagged))

SingleParagraph(nodes) == Len(nodes) = 1 /\ nodes[1].nodeName = "P"

AllMetadataParsable(nodes) ==
    \A i \in DOMAIN nodes : ~hasAttribute(nodes[i], "data-mw")
                            \/ nodes[i].dataMw \in ParsableJson

UidSet(nodes) == { nodes[i].uid : i \in DOMAIN nodes }

KeepsUnflagged(nodes, result) ==
    /\ \A i \in DOMAIN nodes :
          FlaggedAutoGenerated(nodes[i]) => nodes[i].uid \notin UidSet(result)
    /\ ~SingleParagraph(Remaining(nodes)) => Uids(result) = Uids(Remaining(nodes))

UnwrapsExactlySingleParagraph(nodes, result) ==
    IF SingleParagraph(Remaining(nodes))
    THEN Uids(result) = Uids(Remaining(nodes)[1].childNodes)
    ELSE /\ Uids(result) = Uids(Remaining(nodes))
         /\ \A k \in DOMAIN result :
               Uids(result[k].childNodes) = Uids(Remaining(nodes)[k].childNodes)

KeepsUnreadableMetadata(nodes, result) ==
    \A i \in DOMAIN nodes :
        MetadataMissingOrUnparsable(nodes[i]) =>
            \/ nodes[i].uid \in UidSet(result)
            \/ /\ Remaining(nodes) = << nodes[i] >>
               /\ nodes[i].nodeName = "P"
               /\ Uids(result) = Uids(nodes[i].childNodes)

\* C3: for every node list, filterRendering returns a list from which every
\* top-level element flagged autoGenerated is gone and in which the other
\* top-level nodes (edge whitespace and an unwrapped single paragraph aside)
\* stand in their original order.
C3_FilterDropsExactlyAutoGenerated ==
    rendering.state # "none" =>
        /\ rendering.state = "returned"
        /\ KeepsUnflagged(contentNodes, rendering.value)

\* Supports C3: the same, for the node lists whose data-mw texts all parse.
FilterDropsExactlyAutoGenerated_Parsable ==
    (rendering.state # "none" /\ AllMetadataParsable(contentNodes)) =>
        /\ rendering.state = "returned"
        /\ KeepsUnflagged(contentNodes, rendering.value)

\* C4: filterRendering returns the child nodes of the paragraph exactly when
\* one p element is all that remains after the autoGenerated elements are
\* dropped and the edge whitespace trimmed; otherwise it returns the remaining
\* top-level nodes intact.
C4_FilterUnwrapsSingleParagraph ==
    rendering.state # "none" =>
        /\ rendering.state = "returned"
        /\ UnwrapsExactlySingleParagraph(contentNodes, rendering.value)

\* Supports C4: the same, for the node lists whose data-mw texts all parse.
FilterUnwrapsSingleParagraph_Parsable ==
    (rendering.state # "none" /\ AllMetadataParsable(contentNodes)) =>
        /\ rendering.state = "returned"
        /\ UnwrapsExactlySingleParagraph(contentNodes, rendering.value)

\* C5: for every node list, filterRendering returns a result rather than
\* failing, and a top-level element whose data-mw is missing or does not parse
\* as JSON is kept in it.
C5_FilterPermissiveOnMetadata ==
    rendering.state # "none" =>
        /\ rendering.state = "returned"
        /\ KeepsUnreadableMetadata(contentNodes, rendering.value)

\* Supports C5: what the code does instead. It fails exactly on the node lists
\* holding an element whose data-mw does not parse, and keeps the elements
\* without a data-mw attribute.
FilterThrowsOnUnparsableMetadata ==
    rendering.state # "none" =>
        IF AllMetadataParsable(contentNodes)
        THEN /\ rendering.state = "returned"
             /\ KeepsUnreadableMetadata(contentNodes, rendering.value)
        ELSE rendering.state = "thrown"

(***************************************************************************)
(* Properties of filterRenderedDomElements (SpecDom)                       *)
(***************************************************************************)
SanctionedStyle(e) ==
    /\ e.tag = "style"
    /\ Len(e.dedup) > 0 /\ e.dedup[1] = "TemplateStyles:"

SanctionedLink(e) ==
    /\ e.tag = "link"
    /\ "mw-deduplicated-inline-style" \in { e.rel[i] : i \in DOMAIN e.rel }
    /\ Len(e.href) > 0 /\ e.href[1] = "mw-data:TemplateStyles:"

Unsanctioned(e) ==
    e.tag \in { "style", "link" } /\ ~SanctionedStyle(e) /\ ~SanctionedLink(e)

Retained(e) == ~Unsanctioned(e)

\* C6: for every list of elements, the list filterRenderedDomElements returns
\* holds no style or link element without the TemplateStyles marking, neither
\* as an entry nor as a descendant of one, and holds every other element in
\* place.
C6_NoUnsanctionedStyleOrLink ==
    domResult.state = "returned" =>
        /\ \A i \in DOMAIN domResult.value :
              /\ ~Unsanctioned(domResult.value[i])
              /\ \A j \in DOMAIN domResult.value[i].childNodes :
                    ~Unsanctioned(domResult.value[i].childNodes[j])
        /\ Uids(domResult.value) = Uids(SelectSeq(domElements, Retained))
        /\ \A i \in DOMAIN domResult.value :
              \E k \in DOMAIN domElements :
                 /\ domElements[k].uid = domResult.value[i].uid
                 /\ Uids(domResult.value[i].childNodes)
                      = Uids(SelectSeq(domElements[k].childNodes, Retained))

\* Supports C6: what the code does instead. Every entry of the list handed in
\* is an entry of the list returned, unsanctioned or not; below the entries the
\* unsanctioned style and link elements are gone and the rest is in place.
DomFilterOnlyBelowTopLevel ==
    domResult.state = "returned" =>
        /\ Uids(domResult.value) = Uids(domElements)
        /\ \A i \in DOMAIN domElements :
              Uids(domResult.value[i].childNodes)
                = Uids(SelectSeq(domElements[i].childNodes, Retained))

(***************************************************************************)
(* Properties of getDescription and getDescriptionDom (SpecDesc)           *)
(***************************************************************************)
HasTemplatePage(part) == part.templatePage \notin { Undefined, << >> }
HasTemplateName(part) == part.template \notin { Undefined, << >> }
Omitted(part) == ~HasTemplatePage(part) /\ ~HasTemplateName(part)
Contributes(part) == ~Omitted(part)

RelativeName(part) == getRelativeText(newFromText(part.templatePage), "template")

Entry(part) == IF HasTemplatePage(part) THEN RelativeName(part) ELSE part.template

\* The entries of the first k contributing parts with one separator between
\* each two of them.
RECURSIVE Separated(_, _)
Separated(parts, k) ==
    IF k = 0 THEN << >>
    ELSE IF k = 1 THEN Entry(parts[1])
    ELSE Separated(parts, k - 1) \o commaSeparator \o Entry(parts[k])

SeparatorAt(s, i) ==
    /\ i >= 1
    /\ i + Len(commaSeparator) - 1 <= Len(s)
    /\ SubSeq(s, i, i + Len(commaSeparator) - 1) = commaSeparator

CountSeparators(s) == Cardinality({ i \in DOMAIN s : SeparatorAt(s, i) })

\* C7: for every parts list, getDescription returns the entries of the parts
\* that are not omitted, in order, joined by the separator: the template
\* namespace relative name of a part with a templatePage, the name of a part
\* with only a template name; the separators number one less than the entries
\* (none when there is no entry), none leading, trailing or doubled.
C7_DescriptionJoinsEntries ==
    description.state = "returned" =>
        LET entries == SelectSeq(partsList, Contributes)
            text == description.value
            n == Len(entries)
        IN  /\ text = Separated(entries, n)
            /\ CountSeparators(text) = IF n = 0 THEN 0 ELSE n - 1
            /\ ~SeparatorAt(text, 1)
            /\ ~SeparatorAt(text, Len(text) - Len(commaSeparator) + 1)
            /\ \A i \in DOMAIN text :
                  ~(SeparatorAt(text, i) /\ SeparatorAt(text, i + Len(commaSeparator)))

\* C7 witness: getDescription has run on a list of a part with a templatePage,
\* a part with only a template name and a part with neither.
C7_Witness ==
    /\ description.state = "returned"
    /\ Len(partsList) = 3
    /\ HasTemplatePage(partsList[1])
    /\ ~HasTemplatePage(partsList[2]) /\ HasTemplateName(partsList[2])
    /\ Omitted(partsList[3])
    /\ CountSeparators(description.value) = 1

\* C8: for every parts list, getDescriptionDom returns one span whose children
\* are, in part order, a link per part with a templatePage and a text node per
\* part with only a template name, one separator text node between each two
\* and none before the first or after the last, nothing for a part with
\* neither; the text of the span is what getDescription returns.
C8_DescriptionDomMatchesDescription ==
    descriptionDom.state = "returned" =>
        LET entries == SelectSeq(partsList, Contributes)
            span == descriptionDom.value
            n == Len(entries)
        IN  /\ span.nodeName = "span"
            /\ Len(span.childNodes) = IF n = 0 THEN 0 ELSE 2 * n - 1
            /\ \A k \in 1..n :
                  LET child == span.childNodes[2 * k - 1]
                  IN  IF HasTemplatePage(entries[k])
                      THEN /\ child.nodeName = "a"
                           /\ child.text = RelativeName(entries[k])
                           /\ child.href = getUrl(newFromText(entries[k].templatePage))
                      ELSE /\ child.nodeName = "#text"
                           /\ child.text = entries[k].template
            /\ \A k \in 1..(n - 1) :
                  /\ span.childNodes[2 * k].nodeName = "#text"
                  /\ span.childNodes[2 * k].text = commaSeparator
            /\ textContent(span) = getDescription(partsList)

\* C8 witness: getDescriptionDom has run on a list of a part with a
\* templatePage, a part with neither and a part with only a template name.
C8_Witness ==
    /\ descriptionDom.state = "returned"
    /\ Len(partsList) = 3
    /\ HasTemplatePage(partsList[1])
    /\ Omitted(partsList[2])
    /\ ~HasTemplatePage(partsList[3]) /\ HasTemplateName(partsList[3])
    /\ Len(descriptionDom.value.childNodes) = 3

(***************************************************************************)
(* Properties of executeCommand (SpecCmd)                                  *)
(***************************************************************************)
TransclusionPanels ==
    { "ve.ui.MWTransclusionContextItem", "ve.ui.MWDefinedTransclusionContextItem" }

HasTransclusionPanel(items) == \E i \in DOMAIN items : items[i] \in TransclusionPanels

GenericPath == "ve.ce.FocusableNode.prototype.executeCommand"

\* C9: on every executeCommand exactly one path runs: the edit handler of the
\* transclusion context item when the context has one, and the generic
\* FocusableNode executeCommand otherwise.
C9_CommandDispatch ==
    \A k \in DOMAIN calls :
        LET c == calls[k]
        IN  /\ Len(c.invoked) = 1
            /\ IF HasTransclusionPanel(c.items)
               THEN /\ c.invoked[1].handler = "onEditButtonClick"
                    /\ c.items[c.invoked[1].item] \in TransclusionPanels
               ELSE c.invoked[1].handler = GenericPath

\* Supports C9: what the code does instead. Exactly one path runs, chosen by
\* the first context item alone.
CommandDispatchOnFirstItem ==
    \A k \in DOMAIN calls :
        LET c == calls[k]
        IN  /\ Len(c.invoked) = 1
            /\ IF Len(c.items) > 0 /\ c.items[1] \in TransclusionPanels
               THEN c.invoked[1].handler = "onEditButtonClick" /\ c.invoked[1].item = 1
               ELSE c.invoked[1].handler = GenericPath

(***************************************************************************)
(* Properties of generateContents (Spec)                                   *)
(***************************************************************************)
DeferredOf(i) == deferreds[handles[i].deferred]
XhrOf(i) == xhrs[handles[i].abort]

OutcomeOf(i) ==
    LET xhr == XhrOf(i)
        d == DeferredOf(i)
    IN  CASE xhr.state = "inflight" -> d.state = "pending"
          [] xhr.state = "done" /\ xhr.response.result = "success" ->
                /\ d.state = "resolved"
                /\ filterRendering(parseHTML(xhr.response.content)).state = "returned"
                /\ d.value = filterRendering(parseHTML(xhr.response.content)).value
          [] OTHER -> d.state = "rejected" /\ d.value = NoValue

\* C1: the outcome of every generateContents is decided by how its request
\* completes: resolved with filterRendering of the parsed content on a response
\* whose result is 'success', rejected with no value on any other response and
\* on a network failure, never both and never resolved without 'success'.
C1_OutcomeFollowsCompletion ==
    \A i \in DOMAIN handles : OutcomeOf(i)

\* Supports C1: the same, for the responses whose content filterRendering does
\* not throw on; on the others the operation stays pending.
OutcomeFollowsCompletion_Parsable ==
    \A i \in DOMAIN handles :
        IF handles[i].abort \in uncaught
        THEN DeferredOf(i).state = "pending" /\ XhrOf(i).state = "done"
        ELSE OutcomeOf(i)

\* C2: calling abort on the promise generateContents returned aborts the
\* request of that invocation if it is still in flight, and from that call on
\* no step resolves the operation of that invocation.
C2_AbortNeverResolves ==
    [][ \A i \in DOMAIN handles :
          /\ ( /\ ~handles[i].abortCalled
               /\ handles'[i].abortCalled
               /\ xhrs[handles[i].abort].state = "inflight" )
             => xhrs'[handles[i].abort].state = "aborted"
          /\ handles'[i].abortCalled
             => ~( /\ deferreds[handles[i].deferred].state # "resolved"
                   /\ deferreds'[handles[i].deferred].state = "resolved" ) ]_vars

\* C2 witness: an invocation was aborted with its request in flight and its
\* operation is rejected, while another invocation's operation is resolved.
C2_Witness ==
    \E i, j \in DOMAIN handles :
        /\ handles[i].abortCalled
        /\ XhrOf(i).state = "aborted"
        /\ DeferredOf(i).state = "rejected"
        /\ DeferredOf(j).state = "resolved"

OneRequestEach ==
    /\ Len(xhrs) = Len(handles)
    /\ Len(deferreds) = Len(handles)
    /\ \A i, j \in DOMAIN handles :
          i # j => /\ handles[i].abort # handles[j].abort
                   /\ handles[i].deferred # handles[j].deferred

SettledOnceByOwnRequest ==
    \A i \in DOMAIN handles :
        /\ Len(DeferredOf(i).by) <= 1
        /\ \A k \in DOMAIN DeferredOf(i).by : DeferredOf(i).by[k] = handles[i].abort
        /\ DeferredOf(i).state # "pending" => Len(DeferredOf(i).by) = 1

AbortIsolated ==
    \A i \in DOMAIN handles :
        (~handles[i].abortCalled /\ handles'[i].abortCalled) =>
            \A j \in DOMAIN handles \ { i } :
                /\ xhrs'[handles[j].abort] = xhrs[handles[j].abort]
                /\ deferreds'[handles[j].deferred] = deferreds[handles[j].deferred]
                /\ handles'[j] = handles[j]

\* C10: with overlapping generateContents cycles, under every interleaving
\* each invocation issues exactly one request, each operation is settled at
\* most once and only by the completion of its own invocation's request, and
\* aborting one invocation neither aborts nor settles another's.
C10_OverlappingCyclesIndependent ==
    [][ OneRequestEach' /\ SettledOnceByOwnRequest' /\ AbortIsolated ]_vars

\* C10 witness: two cycles overlap; the later one was aborted and is rejected
\* by its own request, the earlier one's request is still in flight.
C10_Witness ==
    /\ Len(handles) >= 2
    /\ XhrOf(1).state = "inflight" /\ DeferredOf(1).state = "pending"
    /\ handles[2].abortCalled
    /\ XhrOf(2).state = "aborted"
    /\ DeferredOf(2).state = "rejected" /\ DeferredOf(2).by = << handles[2].abort >>

====
